---- MODULE Spec2Model ----
(***************************************************************************)
(* Garud backend: the network scan aggregator (network_scanner.py), the    *)
(* fusion/enrichment processor (middleware.py), the depth-limited crawl    *)
(* engine (scrapy_crawler.py), the engine selector (crawler_engines.py)    *)
(* and the HTTP endpoints (server.py).                                     *)
(*                                                                         *)
(* Python values are modelled as follows.  A dict is a function on the     *)
(* strings that are its keys (a record); d.get(k, v) is Get(d, k, v).  A   *)
(* list is a sequence; the empty list and the empty dict are both <<>>.    *)
(* Text whose characters the code inspects (input names and types, tool    *)
(* output lines) is a sequence of one-character strings, so that lower(),  *)
(* strip(), `in` and the regular expressions are computed character by     *)
(* character.  Text the code only passes on is a TLA+ string.              *)
(***************************************************************************)
EXTENDS Integers, Sequences, FiniteSets, TLC

VARIABLES
    pc,             \* scan_target: the call it is about to make
    scan_results,   \* scan_target: the dict it is building
    ret,            \* scan_target: the value it returned
    invoked,        \* the probes called so far, in call order
    commands,       \* the subprocesses run so far and how each ended, in order
    crawl_result,   \* process_crawl_data: first argument (caller's object)
    network_data,   \* process_crawl_data: second argument (caller's object)
    processor,      \* the DataProcessor instance's fields
    processed,      \* process_crawl_data: the value it returned
    calls,          \* the helpers process_crawl_data called, in call order
    ncalls,         \* process_crawl_data calls made on this DataProcessor
    scrapy_engine,  \* the ScrapyEngine instance's fields
    frame,          \* ScrapyEngine.crawl: the locals of the running call
    gets,           \* the URLs session.get was called with, per crawl call
    returns,        \* the values the crawl calls returned, in call order
    web,            \* the site crawled: what each URL answers
    request,        \* the HTTP request being served: endpoint and JSON body
    response,       \* the handler's answer: status and body
    work,           \* the engines and scans the handler called, in order
    soup,           \* the hrefs of the page the static engine is served
    PLAYWRIGHT_AVAILABLE    \* crawler_engines: did the import succeed

vars ==
    <<pc, scan_results, ret, invoked, commands,
      crawl_result, network_data, processor, processed, calls, ncalls,
      scrapy_engine, frame, gets, returns, web,
      request, response, work, soup, PLAYWRIGHT_AVAILABLE>>

scanVars ==
    <<pc, scan_results, ret, invoked, commands>>

procVars ==
    <<crawl_result, network_data, processor, processed, calls, ncalls>>

crawlVars ==
    <<scrapy_engine, frame, gets, returns, web>>

serverVars ==
    <<request, response, work, soup, PLAYWRIGHT_AVAILABLE>>

(***************************************************************************)
(* Bounds of the model.                                                    *)
(***************************************************************************)
MaxAddrs == 2      \* longest answer list of a resolver call

MaxLines == 2      \* most lines of port-scan output

MaxInputs == 2     \* most bare input descriptors of a crawl result

MaxCalls == 2      \* most process_crawl_data calls on one DataProcessor

MaxHrefs == 2      \* most <a href> elements of a page

(***************************************************************************)
(* Python built-ins.                                                       *)
(***************************************************************************)
\* Python's None where a character sequence is expected: no character
\* sequence of the model has a multi-character element.
None ==
    <<"None">>

\* Python's None where text that is only passed on is expected: no such
\* text of the model reads "None".
NoneText ==
    "None"

\* a / b in floating point, kept as the quotient's two operands
TrueDiv(a, b) ==
    [num |-> a, den |-> b]

Get(d, k, dflt) ==
    IF k \in DOMAIN d THEN d[k] ELSE dflt

Take(s, n) ==
    SubSeq(s, 1, IF Len(s) < n THEN Len(s) ELSE n)

UpperToLower ==
    [A |-> "a", B |-> "b", C |-> "c", D |-> "d", E |-> "e", F |-> "f",
     G |-> "g", H |-> "h", I |-> "i", J |-> "j", K |-> "k", L |-> "l",
     M |-> "m", N |-> "n", O |-> "o", P |-> "p", Q |-> "q", R |-> "r",
     S |-> "s", T |-> "t", U |-> "u", V |-> "v", W |-> "w", X |-> "x",
     Y |-> "y", Z |-> "z"]

\* str.lower()
Lower(s) ==
    [i \in 1..Len(s) |->
        IF s[i] \in DOMAIN UpperToLower THEN UpperToLower[s[i]] ELSE s[i]]

\* sub in s, for character sequences
Contains(sub, s) ==
    \E i \in 1..(Len(s) + 1) :
        /\ i + Len(sub) - 1 <= Len(s)
        /\ SubSeq(s, i, i + Len(sub) - 1) = sub

IsSpace(c) ==
    c \in {" ", "\t", "\r", "\n"}

\* str.strip()
Strip(s) ==
    LET keep == {i \in 1..Len(s) : ~IsSpace(s[i])}
        lo == CHOOSE i \in keep : \A j \in keep : i <= j
        hi == CHOOSE i \in keep : \A j \in keep : i >= j
    IN  IF keep = {} THEN <<>> ELSE SubSeq(s, lo, hi)

DigitValue ==
    [c \in {"0", "1", "2", "3", "4", "5", "6", "7", "8", "9"} |->
        CASE c = "0" -> 0 [] c = "1" -> 1 [] c = "2" -> 2 [] c = "3" -> 3
          [] c = "4" -> 4 [] c = "5" -> 5 [] c = "6" -> 6 [] c = "7" -> 7
          [] c = "8" -> 8 [] c = "9" -> 9]

IsDigit(c) ==
    c \in DOMAIN DigitValue

\* int(text), for a sequence of decimal digits
RECURSIVE ToInt(_)
ToInt(ds) ==
    IF ds = <<>> THEN 0
    ELSE 10 * ToInt(SubSeq(ds, 1, Len(ds) - 1)) + DigitValue[ds[Len(ds)]]

\* list(dict.fromkeys(s)) / "if x not in l: l.append(x)": first occurrences
RECURSIVE Dedup(_)
Dedup(s) ==
    IF s = <<>> THEN <<>>
    ELSE LET front == Dedup(SubSeq(s, 1, Len(s) - 1))
             last == s[Len(s)]
         IN  IF \E i \in 1..Len(front) : front[i] = last
             THEN front ELSE Append(front, last)

\* sorted(list(set(s))) for a sequence of integers
RECURSIVE SortedOfSet(_)
SortedOfSet(S) ==
    IF S = {} THEN <<>>
    ELSE LET m == CHOOSE x \in S : \A y \in S : x <= y
         IN  <<m>> \o SortedOfSet(S \ {m})

Range(s) ==
    {s[i] : i \in 1..Len(s)}

\* the sequences over S of length at most n
SeqsUpTo(S, n) ==
    UNION {[1..k -> S] : k \in 0..n}

\* an exception leaving a function, as opposed to a returned value
Raise(msg) ==
    [raised |-> msg]

IsRaise(r) ==
    "raised" \in DOMAIN r

(***************************************************************************)
(* network_scanner.py: what the operating system can answer.               *)
(*                                                                         *)
(* A subprocess.run call ends in one of five ways: exit status 0           *)
(* ("ok"), another exit status ("nonzero"), subprocess.TimeoutExpired      *)
(* ("timeout"), FileNotFoundError ("notfound"), or any other exception     *)
(* ("exception").  A socket call returns ("ok"), raises socket.gaierror    *)
(* ("gaierror") or raises something else ("exception").  The commands are  *)
(* those of the branch taken when platform.system() is not 'Windows'.      *)
(* scan_target is followed from the point where _extract_hostname has      *)
(* returned the host name of a URL given as a string.                      *)
(***************************************************************************)
RunKinds ==
    {"ok", "nonzero", "timeout", "notfound", "exception"}

IPv4 ==
    {"93.184.216.34", "93.184.216.35"}

IPv6 ==
    {"2606:2800::1"}

hop_line_1 ==
    <<" ", "1", " ", " ", "g", "w", " ", " ", "1", ".", "2", " ", "m", "s">>

hop_line_2 ==
    <<" ", "2", " ", " ", "*", " ", "*", " ", "*">>

trace_header ==
    <<"T", "r", "a", "c", "e", "r", "o", "u", "t", "e", " ", "t", "o", " ",
      "h", ",", " ", "3", "0", " ", "h", "o", "p", "s", " ", "m", "a", "x">>

kw_traceroute ==
    <<"t", "r", "a", "c", "e", "r", "o", "u", "t", "e">>

w_open ==
    <<"o", "p", "e", "n">>

line_80 ==
    <<"8", "0", "/", "t", "c", "p", " ", "o", "p", "e", "n", " ", " ",
      "h", "t", "t", "p">>

line_22 ==
    <<"2", "2", "/", "t", "c", "p", " ", "c", "l", "o", "s", "e", "d", " ",
      "s", "s", "h">>

line_8080 ==
    <<" ", " ", "8", "0", "8", "0", "/", "t", "c", "p", " ", "O", "P", "E",
      "N", " ", "h", "t", "t", "p", "-", "p", "r", "o", "x", "y", " ">>

line_rdns ==
    <<"r", "D", "N", "S", " ", "r", "e", "c", "o", "r", "d", " ", "f",
      "o", "r", " ", "1", "0", ".", "0", ".", "0", ".", "1", ":", " ",
      "o", "p", "e", "n", ".", "e", "x", "a", "m", "p", "l", "e", ".",
      "n", "e", "t">>

\* ping: stdout is passed on unread except for the response times in it
PingOutcomes ==
    {[kind |-> k, times |-> IF k = "ok"
                             THEN <<"11.2", "10.9", "11.0", "12.4", "11.1">>
                             ELSE <<>>] : k \in RunKinds}

\* socket.gethostbyname(hostname)
GethostbynameOutcomes ==
    {[kind |-> "ok", addr |-> a] : a \in IPv4}
        \cup {[kind |-> k, addr |-> ""] : k \in {"gaierror", "exception"}}

\* socket.getaddrinfo(hostname, None, AF_INET6): one entry per socket type,
\* so the same address may be listed more than once
GetaddrinfoOutcomes ==
    {[kind |-> "ok", addrs |-> s] : s \in SeqsUpTo(IPv6, MaxAddrs) \ {<<>>}}
        \cup {[kind |-> k, addrs |-> <<>>] : k \in {"gaierror", "exception"}}

\* dig hostname +short
DigOutcomes ==
    {[kind |-> k] : k \in RunKinds}

\* traceroute hostname
TracerouteOutcomes ==
    {[kind |-> "ok", stdout |-> s] :
        s \in {<<trace_header, hop_line_1, hop_line_2, <<>> >>}}
        \cup {[kind |-> k, stdout |-> <<>>] : k \in RunKinds \ {"ok"}}

\* nmap -V
NmapCheckOutcomes ==
    {[kind |-> k] : k \in RunKinds}

NmapLines ==
    {line_80, line_22, line_8080, line_rdns}

\* nmap -p ... hostname: stdout split at newlines
NmapScanOutcomes ==
    {[kind |-> "ok", stdout |-> s] : s \in SeqsUpTo(NmapLines, MaxLines)}
        \cup {[kind |-> k, stdout |-> <<>>] : k \in RunKinds \ {"ok"}}

\* socket.gethostbyname_ex(hostname)
GethostbynameExOutcomes ==
    {[kind |-> "ok", addrs |-> s] : s \in SeqsUpTo(IPv4, MaxAddrs) \ {<<>>}}
        \cup {[kind |-> k, addrs |-> <<>>] : k \in {"gaierror", "exception"}}

(***************************************************************************)
(* network_scanner.py: the probes.                                         *)
(***************************************************************************)
ping_host(o) ==
    CASE o.kind = "ok" ->
            [success |-> TRUE, host_reachable |-> TRUE,
             response_times |-> Take(o.times, 4), output |-> "ping stdout"]
      [] o.kind = "nonzero" ->
            [success |-> FALSE, host_reachable |-> FALSE,
             error |-> "Host unreachable", output |-> "ping stderr"]
      [] o.kind = "timeout" ->
            [success |-> FALSE, error |-> "Ping timeout"]
      [] o.kind = "notfound" ->
            [success |-> FALSE, error |-> "Ping command not found"]
      [] o.kind = "exception" ->
            [success |-> FALSE, error |-> "str(e)"]

nslookup(hostname, g, a, d) ==
    LET ipv4 == IF g.kind = "ok" THEN <<g.addr>> ELSE <<>>
        ipv6 == IF a.kind = "ok" THEN Dedup(a.addrs) ELSE <<>>
        results == [hostname |-> hostname, ipv4_addresses |-> ipv4,
                    ipv6_addresses |-> ipv6, cname |-> None,
                    mx_records |-> <<>>]
        withOutput == IF d.kind = "ok"
                      THEN results @@ ("command_output" :> "dig stdout")
                      ELSE results
    IN  IF g.kind = "exception" \/ a.kind = "exception" \/ d.kind = "exception"
        THEN [success |-> FALSE, error |-> "str(e)"]
        ELSE withOutput @@ ("success" :> (Len(ipv4) > 0 \/ Len(ipv6) > 0))

\* re.search(r'\d+\s+', line)
HasDigitsThenSpace(line) ==
    \E i \in 1..(Len(line) - 1) : IsDigit(line[i]) /\ IsSpace(line[i + 1])

traceroute(o) ==
    LET hops == SelectSeq(o.stdout,
                    LAMBDA line : /\ HasDigitsThenSpace(line)
                                  /\ ~Contains(kw_traceroute, Lower(line)))
        stripped == [i \in 1..Len(hops) |-> Strip(hops[i])]
    IN  CASE o.kind = "ok" ->
                [success |-> TRUE, hops |-> Take(stripped, 15),
                 total_hops |-> Len(hops), output |-> o.stdout]
          [] o.kind = "nonzero" ->
                [success |-> FALSE, error |-> "traceroute stderr"]
          [] o.kind = "timeout" ->
                [success |-> FALSE, error |-> "Traceroute timeout"]
          [] o.kind = "notfound" ->
                [success |-> FALSE, error |-> "Traceroute command not found"]
          [] o.kind = "exception" ->
                [success |-> FALSE, error |-> "str(e)"]

\* _nmap_scan with its catch-all "except Exception" clause left out
nmap_except_uncaught(kind) ==
    CASE kind = "notfound" ->
            [success |-> FALSE, error |-> "nmap not installed",
             note |-> "Optional tool - system will continue without it"]
      [] kind = "timeout" ->
            [success |-> FALSE, error |-> "nmap timeout (timeout after 30s)"]
      [] kind = "exception" ->
            Raise("str(e)")

\* _nmap_scan with its "except FileNotFoundError" clause left out
nmap_except_generic(kind) ==
    CASE kind = "timeout" ->
            [success |-> FALSE, error |-> "nmap timeout (timeout after 30s)"]
      [] kind \in {"notfound", "exception"} ->
            [success |-> FALSE, error |-> "str(e)", note |-> "nmap is optional"]

\* the except clauses of _nmap_scan, which cover both subprocess.run calls
nmap_except(kind) ==
    CASE kind = "notfound" ->
            [success |-> FALSE, error |-> "nmap not installed",
             note |-> "Optional tool - system will continue without it"]
      [] kind = "timeout" ->
            [success |-> FALSE, error |-> "nmap timeout (timeout after 30s)"]
      [] kind = "exception" ->
            [success |-> FALSE, error |-> "str(e)", note |-> "nmap is optional"]

nmap_scan(check, scan) ==
    LET open_ports == SelectSeq(scan.stdout,
                          LAMBDA line : Contains(w_open, Lower(line)))
    IN  CASE check.kind = "nonzero" ->
                [success |-> FALSE, error |-> "nmap not installed",
                 install_instructions |-> "Install via: apt-get install nmap"]
          [] check.kind \in {"notfound", "timeout", "exception"} ->
                nmap_except(check.kind)
          [] check.kind = "ok" /\ scan.kind = "ok" ->
                [success |-> TRUE,
                 open_ports |-> [i \in 1..Len(open_ports) |-> Strip(open_ports[i])],
                 scan_data |-> scan.stdout]
          [] check.kind = "ok" /\ scan.kind = "nonzero" ->
                [success |-> FALSE, error |-> "nmap stderr"]
          [] check.kind = "ok" /\ scan.kind \in {"notfound", "timeout", "exception"} ->
                nmap_except(scan.kind)

\* _nmap_scan starting the real scan whatever the check says
nmap_commands_unchecked(check, scan) ==
    <<[cmd |-> "nmap -V", kind |-> check.kind],
      [cmd |-> "nmap -p", kind |-> scan.kind]>>

\* the subprocesses _nmap_scan runs, in order, and how each ended
nmap_commands(check, scan) ==
    IF check.kind = "ok"
    THEN <<[cmd |-> "nmap -V", kind |-> check.kind],
           [cmd |-> "nmap -p", kind |-> scan.kind]>>
    ELSE <<[cmd |-> "nmap -V", kind |-> check.kind]>>

get_socket_info(o) ==
    CASE o.kind = "ok" ->
            [hostname_canonical |-> "h_name", aliases |-> <<>>,
             all_addresses |-> o.addrs, success |-> Len(o.addrs) > 0]
      [] o.kind = "gaierror" ->
            [hostname_canonical |-> "None", aliases |-> <<>>,
             all_addresses |-> <<>>, success |-> FALSE]
      [] o.kind = "exception" ->
            [success |-> FALSE, error |-> "str(e)"]

(***************************************************************************)
(* network_scanner.py: the summary.                                        *)
(***************************************************************************)
\* re.search(r'(\d+)', line).group(1): the pattern without its "/"
port_match_digits(line) ==
    LET runEnd(i) == CHOOSE j \in i..Len(line) :
                        /\ \A k \in i..j : IsDigit(line[k])
                        /\ (j = Len(line) \/ ~IsDigit(line[j + 1]))
        starts == {i \in 1..Len(line) : IsDigit(line[i])}
        first == CHOOSE i \in starts : \A j \in starts : i <= j
    IN  IF starts = {} THEN <<>> ELSE SubSeq(line, first, runEnd(first))

\* re.search(r'(\d+)/', line).group(1), <<>> when there is no match: the
\* leftmost run of digits that a "/" follows
port_match(line) ==
    LET runEnd(i) == CHOOSE j \in i..Len(line) :
                        /\ \A k \in i..j : IsDigit(line[k])
                        /\ (j = Len(line) \/ ~IsDigit(line[j + 1]))
        starts == {i \in 1..Len(line) :
                        /\ IsDigit(line[i])
                        /\ runEnd(i) < Len(line)
                        /\ line[runEnd(i) + 1] = "/"}
        first == CHOOSE i \in starts : \A j \in starts : i <= j
    IN  IF starts = {} THEN <<>> ELSE SubSeq(line, first, runEnd(first))

extract_open_ports(results) ==
    LET nmap_results == Get(results, "nmap_results", <<>>)
        lines == Get(nmap_results, "open_ports", <<>>)
        matched == SelectSeq(lines, LAMBDA line : port_match(line) # <<>>)
        ports == [i \in 1..Len(matched) |-> ToInt(port_match(matched[i]))]
    IN  IF Get(nmap_results, "success", FALSE) /\ Len(lines) > 0
        THEN SortedOfSet(Range(ports))
        ELSE <<>>

port_services ==
    (80 :> "HTTP") @@ (443 :> "HTTPS") @@ (22 :> "SSH") @@ (21 :> "FTP")
        @@ (25 :> "SMTP") @@ (53 :> "DNS") @@ (3306 :> "MySQL")
        @@ (5432 :> "PostgreSQL")

map_services(results) ==
    LET open_ports == Range(extract_open_ports(results))
    IN  [port \in open_ports |-> Get(port_services, port, "Unknown")]

generate_summary(results) ==
    LET ping == Get(results, "ping_results", <<>>)
        dns == Get(results, "dns_results", <<>>)
    IN  [target_info |->
            [hostname |-> Get(results, "hostname", ""),
             reachable |-> Get(ping, "host_reachable", FALSE),
             ip_addresses |-> Get(dns, "ipv4_addresses", <<>>)
                                \o Get(dns, "ipv6_addresses", <<>>)],
         open_ports |-> extract_open_ports(results),
         services |-> map_services(results),
         hop_count |-> Get(Get(results, "traceroute_results", <<>>), "total_hops", 0),
         network_accessible |->
            /\ Get(ping, "host_reachable", FALSE)
            /\ Len(Get(dns, "ipv4_addresses", <<>>)) > 0]

(***************************************************************************)
(* network_scanner.py: scan_target, one action per call it makes.  The     *)
(* dict literal evaluates its values in order; an exception leaving any of *)
(* them reaches the except clause of scan_target, which returns the error  *)
(* dict without calling anything further.                                  *)
(***************************************************************************)
Hostname ==
    "example.com"

\* the subprocesses _nslookup runs, and how each ended
nslookup_commands(g, a, d) ==
    IF g.kind = "exception" \/ a.kind = "exception"
    THEN <<>>
    ELSE <<[cmd |-> "dig", kind |-> d.kind]>>

\* scan_target's except clause
scan_target_except(msg) ==
    [error |-> msg, success |-> FALSE]

ProbeReturned(probe, key, r, cmds, next) ==
    /\ invoked' = Append(invoked, probe)
    /\ commands' = commands \o cmds
    /\ IF IsRaise(r)
       THEN /\ pc' = "done"
            /\ ret' = scan_target_except(r.raised)
            /\ UNCHANGED scan_results
       ELSE /\ pc' = next
            /\ scan_results' = scan_results @@ (key :> r)
            /\ UNCHANGED ret

ScanPing ==
    /\ pc = "ping"
    /\ \E o \in PingOutcomes :
        ProbeReturned("_ping_host", "ping_results", ping_host(o),
                      <<[cmd |-> "ping", kind |-> o.kind]>>, "dns")
    /\ UNCHANGED <<procVars, crawlVars, serverVars>>

ScanDns ==
    /\ pc = "dns"
    /\ \E g \in GethostbynameOutcomes, a \in GetaddrinfoOutcomes, d \in DigOutcomes :
        ProbeReturned("_nslookup", "dns_results", nslookup(Hostname, g, a, d),
                      nslookup_commands(g, a, d), "traceroute")
    /\ UNCHANGED <<procVars, crawlVars, serverVars>>

ScanTraceroute ==
    /\ pc = "traceroute"
    /\ \E o \in TracerouteOutcomes :
        ProbeReturned("_traceroute", "traceroute_results", traceroute(o),
                      <<[cmd |-> "traceroute", kind |-> o.kind]>>, "nmap")
    /\ UNCHANGED <<procVars, crawlVars, serverVars>>

ScanNmap ==
    /\ pc = "nmap"
    /\ \E check \in NmapCheckOutcomes, scan \in NmapScanOutcomes :
        ProbeReturned("_nmap_scan", "nmap_results", nmap_scan(check, scan),
                      nmap_commands(check, scan), "socket")
    /\ UNCHANGED <<procVars, crawlVars, serverVars>>

ScanSocket ==
    /\ pc = "socket"
    /\ \E o \in GethostbynameExOutcomes :
        ProbeReturned("_get_socket_info", "socket_info", get_socket_info(o),
                      <<>>, "summary")
    /\ UNCHANGED <<procVars, crawlVars, serverVars>>

ScanSummary ==
    /\ pc = "summary"
    /\ LET built == scan_results @@ ("summary" :> <<>>)
           final == [built EXCEPT !.summary = generate_summary(built)]
       IN  /\ scan_results' = final
           /\ ret' = final
    /\ pc' = "done"
    /\ UNCHANGED <<invoked, commands>>
    /\ UNCHANGED <<procVars, crawlVars, serverVars>>

ScanInit ==
    /\ pc = "ping"
    /\ scan_results = [hostname |-> Hostname]
    /\ ret = <<>>
    /\ invoked = <<>>
    /\ commands = <<>>

ProcIdle ==
    /\ crawl_result = <<>>
    /\ network_data = <<>>
    /\ processor = <<>>
    /\ processed = <<>>
    /\ calls = <<>>
    /\ ncalls = 0

\* no crawl is running and none has run
CrawlIdle ==
    /\ scrapy_engine = <<>>
    /\ frame = <<>>
    /\ gets = <<>>
    /\ returns = <<>>
    /\ web = <<>>

\* no request is being served
ServerIdle ==
    /\ request = <<>>
    /\ response = <<>>
    /\ work = <<>>
    /\ soup = <<>>
    /\ PLAYWRIGHT_AVAILABLE = FALSE

InitScan ==
    ScanInit /\ ProcIdle /\ CrawlIdle /\ ServerIdle

NextScan ==
    \/ ScanPing
    \/ ScanDns
    \/ ScanTraceroute
    \/ ScanNmap
    \/ ScanSocket
    \/ ScanSummary

SpecScan ==
    InitScan /\ [][NextScan]_vars

(***************************************************************************)
(* middleware.py: DataProcessor.  For a helper f that can let an exception *)
(* escape, f_raises tells when it does and f is the value it returns when  *)
(* it does not; None.lower() is the only such case the model's crawl       *)
(* results can trigger.                                                    *)
(***************************************************************************)
kw_password ==
    <<"p", "a", "s", "s", "w", "o", "r", "d">>

kw_pin ==
    <<"p", "i", "n">>

kw_secret ==
    <<"s", "e", "c", "r", "e", "t">>

kw_token ==
    <<"t", "o", "k", "e", "n">>

kw_key ==
    <<"k", "e", "y">>

kw_api ==
    <<"a", "p", "i">>

kw_credit ==
    <<"c", "r", "e", "d", "i", "t">>

kw_card ==
    <<"c", "a", "r", "d">>

kw_cvv ==
    <<"c", "v", "v">>

kw_ssn ==
    <<"s", "s", "n">>

kw_auth ==
    <<"a", "u", "t", "h">>

sensitive_keywords ==
    {kw_password, kw_pin, kw_secret, kw_token, kw_key, kw_api, kw_credit,
     kw_card, kw_cvv, kw_ssn, kw_auth}

t_text ==
    <<"t", "e", "x", "t">>

t_email ==
    <<"e", "m", "a", "i", "l">>

t_number ==
    <<"n", "u", "m", "b", "e", "r">>

t_search ==
    <<"s", "e", "a", "r", "c", "h">>

t_url ==
    <<"u", "r", "l">>

t_unknown ==
    <<"u", "n", "k", "n", "o", "w", "n">>

\* the literal list with 'hidden' added to it
injectable_types_with_hidden ==
    {t_text, t_email, t_number, t_search, t_url,
     <<"h", "i", "d", "d", "e", "n">>}

\* the literal list in _prepare_for_vulnerability_scan
injectable_types ==
    {t_text, t_email, t_number, t_search, t_url}

AttributeError ==
    "'NoneType' object has no attribute 'lower'"

process_scrapy_data(data) ==
    [pages_crawled |-> Len(Get(data, "pages_crawled", <<>>)),
     total_links |-> Get(data, "total_links_found", 0),
     total_forms |-> Get(data, "total_forms_found", 0),
     total_inputs |-> Get(data, "total_inputs_found", 0),
     structured_data |-> Get(data, "structured_data", <<>>),
     depth |-> Get(data, "depth", 1),
     pages |-> Take(Get(data, "pages_crawled", <<>>), 10)]

process_beautifulsoup_data(data) ==
    LET links_info == Get(data, "links", <<>>)
    IN  [status_code |-> Get(data, "status_code", 0),
         total_links |-> Get(links_info, "total", 0),
         internal_links |-> Get(links_info, "internal", 0),
         external_links |-> Get(links_info, "external", 0),
         email_links |-> Get(links_info, "email", 0),
         forms_count |-> Len(Get(data, "forms", <<>>)),
         inputs_count |-> Len(Get(data, "inputs", <<>>)),
         page_size_kb |-> TrueDiv(Get(data, "page_size", 0), 1024),
         has_javascript |-> Get(data, "javascript_enabled", FALSE)]

process_browser_data(data) ==
    [title |-> Get(data, "title", ""),
     current_url |-> Get(data, "current_url", ""),
     redirected |-> Get(data, "url", NoneText) # Get(data, "current_url", NoneText),
     forms_count |-> Len(Get(data, "forms", <<>>)),
     inputs_count |-> Len(Get(data, "inputs", <<>>)),
     links_count |-> Len(Get(data, "links", <<>>)),
     cookies_count |-> Cardinality(DOMAIN Get(data, "cookies", <<>>)),
     page_size_kb |-> TrueDiv(Get(data, "page_size", 0), 1024),
     javascript_enabled |-> Get(data, "javascript_enabled", FALSE),
     authenticated |-> Get(data, "authenticated", FALSE)]

process_engine_data(data, engine) ==
    CASE engine = "scrapy" -> process_scrapy_data(data)
      [] engine = "beautifulsoup" -> process_beautifulsoup_data(data)
      [] engine \in {"selenium", "playwright"} -> process_browser_data(data)
      [] OTHER -> data

\* inp.get('type', 'unknown').lower() on a type that is None
categorize_inputs_raises(inputs) ==
    \E i \in 1..Len(inputs) : Get(inputs[i], "type", t_unknown) = None

categorize_inputs(inputs) ==
    LET typeOf(i) == Lower(Get(inputs[i], "type", t_unknown))
    IN  [t \in {typeOf(i) : i \in 1..Len(inputs)} |->
            Cardinality({i \in 1..Len(inputs) : typeOf(i) = t})]

\* the test of _identify_sensitive_fields with .lower() left out
is_sensitive_case_sensitive(inp) ==
    LET name == Get(inp, "name", <<>>)
        inp_type == Get(inp, "type", <<>>)
    IN  \E kw \in sensitive_keywords :
            Contains(kw, name) \/ Contains(kw, inp_type)

\* the test of _identify_sensitive_fields, on one input
is_sensitive(inp) ==
    LET name == Lower(Get(inp, "name", <<>>))
        inp_type == Lower(Get(inp, "type", <<>>))
    IN  \E kw \in sensitive_keywords :
            Contains(kw, name) \/ Contains(kw, inp_type)

\* inp.get('name', '').lower() or inp.get('type', '').lower() on None
identify_sensitive_fields_raises(crawl_data) ==
    LET inputs == Get(crawl_data, "inputs", <<>>)
    IN  \E i \in 1..Len(inputs) :
            \/ Get(inputs[i], "name", <<>>) = None
            \/ Get(inputs[i], "type", <<>>) = None

identify_sensitive_fields(crawl_data) ==
    SelectSeq(Get(crawl_data, "inputs", <<>>), is_sensitive)

\* the network_info / network_context source: if network_data: ...
Truthy(d) ==
    d # <<>>

enrich_data_raises(crawl_data) ==
    \/ categorize_inputs_raises(Get(crawl_data, "inputs", <<>>))
    \/ identify_sensitive_fields_raises(crawl_data)

enrich_data(crawl_data, net) ==
    LET summary == Get(net, "summary", <<>>)
        target_info == Get(summary, "target_info", <<>>)
        network_info ==
            IF Truthy(net)
            THEN [ip_addresses |-> Get(target_info, "ip_addresses", <<>>),
                  reachable |-> Get(target_info, "reachable", FALSE),
                  open_ports |-> Get(summary, "open_ports", <<>>),
                  services |-> Get(summary, "services", <<>>)]
            ELSE <<>>
    IN  [form_count |-> Len(Get(crawl_data, "forms", <<>>)),
         input_types |-> categorize_inputs(Get(crawl_data, "inputs", <<>>)),
         sensitive_fields |-> identify_sensitive_fields(crawl_data),
         network_info |-> network_info]

\* the helpers _enrich_data calls before it returns or raises
enrich_calls(crawl_data) ==
    IF categorize_inputs_raises(Get(crawl_data, "inputs", <<>>))
    THEN <<"_categorize_inputs">>
    ELSE <<"_categorize_inputs", "_identify_sensitive_fields">>

\* the loop "for inp in inputs: if inp.get('type') in [...]: append(name)"
RECURSIVE injectable_parameters(_)
injectable_parameters(inputs) ==
    IF inputs = <<>> THEN <<>>
    ELSE LET rest == injectable_parameters(SubSeq(inputs, 1, Len(inputs) - 1))
             inp == inputs[Len(inputs)]
         IN  IF Get(inp, "type", None) \in injectable_types
             THEN Append(rest, Get(inp, "name", <<>>))
             ELSE rest

prepare_for_vulnerability_scan(crawl_data, net) ==
    LET summary == Get(net, "summary", <<>>)
        network_context ==
            IF Truthy(net)
            THEN [ip_addresses |->
                        Get(Get(summary, "target_info", <<>>), "ip_addresses", <<>>),
                  open_ports |-> Get(summary, "open_ports", <<>>),
                  services |-> Get(summary, "services", <<>>),
                  network_accessible |-> Get(summary, "network_accessible", FALSE)]
            ELSE <<>>
    IN  [target |->
            [url |-> Get(crawl_data, "url", ""),
             title |-> Get(crawl_data, "title", ""),
             forms |-> Get(crawl_data, "forms", <<>>),
             inputs |-> Get(crawl_data, "inputs", <<>>),
             links |-> Get(crawl_data, "links", <<>>)],
         network_context |-> network_context,
         injectable_parameters |->
            injectable_parameters(Get(crawl_data, "inputs", <<>>)),
         authentication_required |-> Get(crawl_data, "authenticated", FALSE)]

\* process_crawl_data's except clause
process_except(msg) ==
    [success |-> FALSE, error |-> msg]

\* lines 34-52 of process_crawl_data: the crawl succeeded
process_success(crawl, net) ==
    LET data == Get(crawl, "data", <<>>)
        engine == Get(data, "engine", "unknown")
        enriched == enrich_data(data, net)
    IN  IF enrich_data_raises(data)
        THEN [ret |-> process_except(AttributeError),
              calls |-> <<"_process_engine_data", "_enrich_data">>
                            \o enrich_calls(data)]
        ELSE [ret |-> [source_engine |-> engine,
                       target_url |-> Get(data, "url", ""),
                       crawl_data |-> process_engine_data(data, engine),
                       network_data |-> net,
                       enriched_data |-> enriched,
                       vulnerability_scan_ready |->
                            prepare_for_vulnerability_scan(data, net)],
              calls |-> <<"_process_engine_data", "_enrich_data">>
                            \o enrich_calls(data)
                            \o <<"_prepare_for_vulnerability_scan">>]

\* process_crawl_data without its "if not crawl_result.get('success')" test
process_result_unchecked(crawl, net) ==
    process_success(crawl, net)

\* the value process_crawl_data returns (ret) and the helpers it calls
process_result(crawl, net) ==
    IF ~Get(crawl, "success", FALSE)
    THEN [ret |-> [success |-> FALSE, error |-> Get(crawl, "error", NoneText)],
          calls |-> <<>>]
    ELSE process_success(crawl, net)

\* process_crawl_data keeping the last network scan on the instance and
\* falling back to it when it is handed none
process_crawl_data_caching(self, crawl, net) ==
    LET used == IF Truthy(net) THEN net ELSE Get(self, "last_network", <<>>)
    IN  [self |-> [k \in DOMAIN self \cup {"last_network"} |->
                        IF k = "last_network" THEN used ELSE self[k]],
         crawl_result |-> crawl,
         network_data |-> net] @@ process_result(crawl, used)

\* What one call leaves behind: the value returned and the helpers called,
\* and the objects the method was handed as they are afterwards: the method
\* assigns to no field of self and to no part of its arguments.
process_crawl_data(self, crawl, net) ==
    [self |-> self, crawl_result |-> crawl, network_data |-> net]
        @@ process_result(crawl, net)

\* DataProcessor.__init__
DataProcessor ==
    [network_scanner |-> [os_type |-> "Linux"]]   \* platform.system()

(***************************************************************************)
(* The crawl results and network scans the processor is handed.            *)
(***************************************************************************)
Url ==
    "http://example.com/login"

t_password ==
    <<"p", "a", "s", "s", "w", "o", "r", "d">>

t_checkbox ==
    <<"c", "h", "e", "c", "k", "b", "o", "x">>

t_hidden ==
    <<"h", "i", "d", "d", "e", "n">>

t_submit ==
    <<"s", "u", "b", "m", "i", "t">>

t_TEXT ==
    <<"T", "E", "X", "T">>

n_Password1 ==
    <<"P", "a", "s", "s", "w", "o", "r", "d", "1">>

n_username ==
    <<"u", "s", "e", "r", "n", "a", "m", "e">>

n_user_password ==
    <<"u", "s", "e", "r", "_", "p", "a", "s", "s", "w", "o", "r", "d">>

n_q ==
    <<"q">>

n_agree ==
    <<"a", "g", "r", "e", "e">>

n_csrf_token ==
    <<"c", "s", "r", "f", "_", "t", "o", "k", "e", "n">>

n_PIN ==
    <<"P", "I", "N">>

\* input descriptors as _extract_inputs of the engines builds them; the
\* browser engines report None for an attribute the element does not have
InputDescriptors ==
    {[type |-> t_text, name |-> n_Password1],
     [type |-> t_password, name |-> n_username],
     [type |-> t_email, name |-> n_username],
     [type |-> t_TEXT, name |-> n_PIN],
     [type |-> t_checkbox, name |-> n_agree],
     [type |-> t_hidden, name |-> n_csrf_token],
     [type |-> t_submit],
     [type |-> t_text, name |-> None],
     [type |-> None, name |-> n_q]}

\* a form as BeautifulSoupCrawler._extract_forms builds it
LoginForm ==
    [name |-> "login", id |-> "f", action |-> "/login", method |-> "POST",
     fields |-> <<[type |-> t_password, name |-> n_user_password,
                   id |-> "", value |-> "", required |-> TRUE],
                  [type |-> t_text, name |-> n_q,
                   id |-> "", value |-> "", required |-> FALSE]>>]

FormLists ==
    {<<>>, <<LoginForm>>}

\* BeautifulSoupCrawler.crawl
beautifulsoup_data(forms, inputs) ==
    [engine |-> "beautifulsoup", url |-> Url, status_code |-> 200,
     title |-> "Login",
     links |-> [total |-> 3, internal |-> 2, external |-> 1, email |-> 0],
     forms |-> forms, inputs |-> inputs, page_size |-> 2048,
     javascript_enabled |-> FALSE]

\* BeautifulSoupCrawler.crawl_with_login
beautifulsoup_login_data(forms) ==
    [engine |-> "beautifulsoup", authenticated |-> TRUE, login_url |-> Url,
     target_url |-> Url, status_code |-> 200, title |-> "Home",
     forms |-> forms, page_size |-> 2048]

\* SeleniumEngine.crawl
selenium_data(forms, inputs, current_url) ==
    [engine |-> "selenium", url |-> Url, title |-> "Login",
     current_url |-> current_url, links |-> <<"http://example.com/a">>,
     forms |-> forms, inputs |-> inputs, cookies |-> [sid |-> "1"],
     page_size |-> 2048, javascript_enabled |-> TRUE]

\* SeleniumEngine.crawl_with_login
selenium_login_data(forms, current_url) ==
    [engine |-> "selenium", authenticated |-> TRUE,
     redirected_url |-> current_url, title |-> "Home", forms |-> forms,
     page_size |-> 2048]

\* PlaywrightEngine.crawl
playwright_data(forms, current_url) ==
    [engine |-> "playwright", url |-> Url, title |-> "Login",
     current_url |-> current_url, links |-> <<"http://example.com/a">>,
     forms |-> forms, page_size |-> 2048, javascript_enabled |-> TRUE]

\* ScrapyEngine.crawl
scrapy_data(forms, inputs) ==
    [engine |-> "scrapy", url |-> Url, depth |-> 1, status_code |-> 200,
     pages_crawled |-> <<[url |-> Url, title |-> "Login",
                          links |-> <<"http://example.com/a">>,
                          forms |-> forms, inputs |-> inputs]>>,
     total_links_found |-> 1, total_forms_found |-> Len(forms),
     total_inputs_found |-> Len(inputs), structured_data |-> <<>>]

InputLists ==
    SeqsUpTo(InputDescriptors, MaxInputs)

CurrentUrls ==
    {Url, "http://example.com/home"}

\* the data of a successful crawl, per engine; the last two are results
\* of an engine the processor does not know and a dict with no engine tag
CrawlData ==
    {beautifulsoup_data(f, i) : f \in FormLists, i \in InputLists}
        \cup {beautifulsoup_login_data(f) : f \in FormLists}
        \cup {selenium_data(f, i, Url) : f \in FormLists, i \in InputLists}
        \cup {selenium_data(f, <<>>, u) : f \in FormLists, u \in CurrentUrls}
        \cup {selenium_login_data(f, u) : f \in FormLists, u \in CurrentUrls}
        \cup {playwright_data(f, u) : f \in FormLists, u \in CurrentUrls}
        \cup {scrapy_data(f, i) : f \in FormLists,
                                   i \in SeqsUpTo(InputDescriptors, 1)}
        \cup {[engine |-> "httpx", url |-> Url, forms |-> f, inputs |-> i] :
                    f \in FormLists, i \in InputLists}
        \cup {<<>>}

\* the failures the engines return, and dicts that carry no success flag
FailedCrawls ==
    {[success |-> FALSE, error |-> e] :
            e \in {"Connection failed", "Request timeout", "HTTP 404",
                   "Failed to initialize WebDriver"}}
        \cup {[success |-> FALSE], [error |-> "Page load timeout"], <<>>,
              [success |-> FALSE, error |-> "HTTP 500",
               data |-> beautifulsoup_data(<<LoginForm>>, <<>>)]}

CrawlResults ==
    {[success |-> TRUE, data |-> d] : d \in CrawlData}
        \cup {[success |-> TRUE]}
        \cup FailedCrawls

\* the value scan_target returns when no exception reaches its except clause
scan_target_result(p, g, a, d, t, check, scan, k) ==
    LET built == [hostname |-> Hostname,
                  ping_results |-> ping_host(p),
                  dns_results |-> nslookup(Hostname, g, a, d),
                  traceroute_results |-> traceroute(t),
                  nmap_results |-> nmap_scan(check, scan),
                  socket_info |-> get_socket_info(k),
                  summary |-> <<>>]
    IN  [built EXCEPT !.summary = generate_summary(built)]

\* what the caller passes as network_data: None (not told apart from {},
\* as the method tests only its truth value) or a scan_target result
NetworkData ==
    {<<>>,
     scan_target_result(
        [kind |-> "ok", times |-> <<"11.2">>],
        [kind |-> "ok", addr |-> "93.184.216.34"],
        [kind |-> "ok", addrs |-> <<"2606:2800::1">>],
        [kind |-> "ok"],
        [kind |-> "ok", stdout |-> <<hop_line_1>>],
        [kind |-> "ok"],
        [kind |-> "ok", stdout |-> <<line_80, line_8080>>],
        [kind |-> "ok", addrs |-> <<"93.184.216.34">>]),
     scan_target_result(
        [kind |-> "timeout", times |-> <<>>],
        [kind |-> "gaierror", addr |-> ""],
        [kind |-> "gaierror", addrs |-> <<>>],
        [kind |-> "notfound"],
        [kind |-> "notfound", stdout |-> <<>>],
        [kind |-> "notfound"],
        [kind |-> "notfound", stdout |-> <<>>],
        [kind |-> "gaierror", addrs |-> <<>>]),
     scan_target_except("str(e)")}

\* the arguments of a later call on the same DataProcessor
LaterCrawlResults ==
    {[success |-> TRUE,
      data |-> beautifulsoup_data(<<LoginForm>>, <<[type |-> t_text, name |-> n_q]>>)],
     [success |-> TRUE,
      data |-> selenium_data(<<>>, <<[type |-> t_password, name |-> n_username]>>, Url)],
     [success |-> FALSE, error |-> "Connection failed"]}

(***************************************************************************)
(* The processor's callers: a first call, the same call again, and calls   *)
(* with other arguments, all on one DataProcessor instance.                *)
(***************************************************************************)
Process ==
    /\ ncalls < MaxCalls
    /\ LET r == process_crawl_data(processor, crawl_result, network_data)
       IN  /\ processed' = r.ret
           /\ calls' = r.calls
           /\ processor' = r.self
           /\ crawl_result' = r.crawl_result
           /\ network_data' = r.network_data
    /\ ncalls' = ncalls + 1
    /\ UNCHANGED <<scanVars, crawlVars, serverVars>>

NewArguments ==
    /\ ncalls > 0
    /\ ncalls < MaxCalls
    /\ processed # <<>>
    /\ \E c \in LaterCrawlResults, n \in NetworkData :
        /\ crawl_result' = c
        /\ network_data' = n
    /\ processed' = <<>>
    /\ calls' = <<>>
    /\ UNCHANGED <<processor, ncalls>>
    /\ UNCHANGED <<scanVars, crawlVars, serverVars>>

InitProc ==
    /\ pc = "idle"
    /\ scan_results = <<>>
    /\ ret = <<>>
    /\ invoked = <<>>
    /\ commands = <<>>
    /\ crawl_result \in CrawlResults
    /\ network_data \in NetworkData
    /\ processor = DataProcessor
    /\ processed = <<>>
    /\ calls = <<>>
    /\ ncalls = 0
    /\ CrawlIdle
    /\ ServerIdle

NextProc ==
    \/ Process
    \/ NewArguments

SpecProc ==
    InitProc /\ [][NextProc]_vars

(***************************************************************************)
(* The depth-limited crawl engine (scrapy_crawler.py).  A URL is the       *)
(* record urlparse makes of it; an anchor of a page is its href as written *)
(* (the prefix startswith tests) and the URL urljoin resolves it to.       *)
(***************************************************************************)
MaxCrawls == 2     \* most crawl calls on one ScrapyEngine

U(netloc, path) ==
    [scheme |-> "http", netloc |-> netloc, path |-> path]

Seed ==
    U("example.com", "/")

PagePaths ==
    <<"/p1", "/p2", "/p3", "/p4", "/p5", "/p6", "/p7", "/p8">>

Page(k) ==
    U("example.com", PagePaths[k])

External ==
    U("other.example", "/")

\* <a href=...>: a plain link, and one written with a prefix
A(url) ==
    [prefix |-> "", url |-> url]

Prefixed(prefix, url) ==
    [prefix |-> prefix, url |-> url]

EightPages ==
    [k \in 1..8 |-> A(Page(k))]

\* The sites crawled: the anchors of the seed page in document order, the
\* URLs that answer 404 and the URLs whose request raises.
Webs ==
    {[seed_hrefs |-> EightPages, not_found |-> {}, down |-> {}],
     [seed_hrefs |-> <<A(External)>> \o EightPages,
      not_found |-> {}, down |-> {}],
     [seed_hrefs |-> <<A(Seed), A(Page(1)), A(Page(2))>>,
      not_found |-> {}, down |-> {}],
     [seed_hrefs |-> <<A(Page(1)), A(Page(1)), A(Page(2)), A(Page(3)),
                       Prefixed("mailto:", [scheme |-> "mailto", netloc |-> "",
                                            path |-> "a@example.com"]),
                       Prefixed("#", Seed), A(Page(4)), A(Page(5))>>,
      not_found |-> {Page(2)}, down |-> {Page(3)}],
     [seed_hrefs |-> <<>>, not_found |-> {}, down |-> {}],
     [seed_hrefs |-> EightPages, not_found |-> {Seed}, down |-> {}],
     [seed_hrefs |-> EightPages, not_found |-> {}, down |-> {Seed}]}

\* the anchors of the page at url: every page but the seed links home
page_hrefs(w, url) ==
    IF url = Seed THEN w.seed_hrefs ELSE <<A(Seed)>>

\* self.session.get(url, ...)
session_get(w, url) ==
    IF url \in w.down
    THEN [kind |-> "exception", error |-> "ConnectionError"]
    ELSE [kind |-> "ok",
          status_code |-> IF url \in w.not_found THEN 404 ELSE 200]

extract_crawlable_links(hrefs) ==
    LET kept == SelectSeq(hrefs,
                    LAMBDA a : /\ a.prefix \notin {"mailto:", "javascript:", "#"}
                               /\ a.url.scheme \in {"http", "https"})
    IN  [i \in 1..Len(kept) |-> kept[i].url]

\* list(set(links)): each URL once; the order a set is listed in is not
\* fixed, and nothing in the code reads more than membership and length
extract_links_from_soup(hrefs) ==
    LET kept == SelectSeq(hrefs,
                    LAMBDA a : a.prefix \notin {"mailto:", "javascript:"})
    IN  Dedup([i \in 1..Len(kept) |-> kept[i].url])

parse_page(w, url) ==
    [url |-> url, title |-> "",
     links |-> extract_links_from_soup(page_hrefs(w, url)),
     forms |-> <<>>, inputs |-> <<>>, headers |-> <<>>, meta_tags |-> <<>>,
     word_count |-> 0]

RECURSIVE SumLen(_, _)
SumLen(pages, key) ==
    IF pages = <<>> THEN 0
    ELSE Len(Get(pages[1], key, <<>>)) + SumLen(Tail(pages), key)

\* lines 66-79 of crawl: extend, aggregate, return
crawl_return(results, crawled_pages) ==
    LET pages == results.pages_crawled \o crawled_pages
    IN  [success |-> TRUE,
         data |-> [results EXCEPT
                    !.pages_crawled = pages,
                    !.total_links_found = SumLen(pages, "links"),
                    !.total_forms_found = SumLen(pages, "forms"),
                    !.total_inputs_found = SumLen(pages, "inputs")]]

\* crawl's except clause
crawl_except(msg) ==
    [success |-> FALSE, error |-> msg]

\* ScrapyEngine.__init__
ScrapyEngine ==
    [timeout |-> 10, max_workers |-> 3, visited_urls |-> {}]

\* crawl(url, max_depth) up to its call of _crawl_depth: lines 41-65
crawl(url, max_depth) ==
    LET r == session_get(web, url)
    IN  /\ gets' = Append(gets, <<url>>)
        /\ IF r.kind = "exception"
           THEN /\ returns' = Append(returns, crawl_except(r.error))
                /\ frame' = <<>>
           ELSE IF r.status_code >= 400          \* raise_for_status()
           THEN /\ returns' = Append(returns, crawl_except("404 Client Error"))
                /\ frame' = <<>>
           ELSE LET results ==
                        [engine |-> "scrapy", url |-> url, depth |-> max_depth,
                         status_code |-> r.status_code,
                         pages_crawled |-> <<parse_page(web, url)>>,
                         total_links_found |-> 0, total_forms_found |-> 0,
                         total_inputs_found |-> 0,
                         structured_data |->
                            [json_ld |-> <<>>, microdata |-> <<>>,
                             og_tags |-> <<>>]]
                IN  IF max_depth > 1
                    THEN /\ frame' =
                                [results |-> results,
                                 links |-> extract_crawlable_links(
                                                page_hrefs(web, url)),
                                 base_url |-> url, i |-> 1,
                                 crawled_pages |-> <<>>]
                         /\ UNCHANGED returns
                    ELSE /\ returns' = Append(returns, crawl_return(results, <<>>))
                         /\ frame' = <<>>
        /\ UNCHANGED <<scrapy_engine, web>>

\* _crawl_depth: one turn of "for link in links[:5]"
CrawlDepthLink ==
    /\ frame # <<>>
    /\ frame.i <= Len(Take(frame.links, 5))
    /\ LET link == Take(frame.links, 5)[frame.i]
           r == session_get(web, link)
       IN  IF /\ link \notin scrapy_engine.visited_urls
              /\ link.netloc = frame.base_url.netloc
           THEN /\ scrapy_engine' =
                    [scrapy_engine EXCEPT !.visited_urls = @ \cup {link}]
                /\ gets' = [gets EXCEPT ![Len(gets)] = Append(@, link)]
                /\ frame' =
                    [frame EXCEPT
                        !.i = @ + 1,
                        !.crawled_pages =
                            IF r.kind = "ok" /\ r.status_code = 200
                            THEN Append(@, parse_page(web, link))
                            ELSE @]
           ELSE /\ frame' = [frame EXCEPT !.i = @ + 1]
                /\ UNCHANGED <<scrapy_engine, gets>>
    /\ UNCHANGED <<returns, web>>
    /\ UNCHANGED <<scanVars, procVars, serverVars>>

\* _crawl_depth returns and crawl finishes: lines 135 and 66-79
CrawlDepthReturn ==
    /\ frame # <<>>
    /\ frame.i > Len(Take(frame.links, 5))
    /\ returns' = Append(returns, crawl_return(frame.results, frame.crawled_pages))
    /\ frame' = <<>>
    /\ UNCHANGED <<scrapy_engine, gets, web>>
    /\ UNCHANGED <<scanVars, procVars, serverVars>>

\* a caller holding one ScrapyEngine calls crawl, time after time
CallCrawl ==
    /\ frame = <<>>
    /\ Len(returns) < MaxCrawls
    /\ \E url \in {Seed, Page(1)}, max_depth \in 1..3 : crawl(url, max_depth)
    /\ UNCHANGED <<scanVars, procVars, serverVars>>

InitCrawl ==
    /\ pc = "idle"
    /\ scan_results = <<>>
    /\ ret = <<>>
    /\ invoked = <<>>
    /\ commands = <<>>
    /\ ProcIdle
    /\ ServerIdle
    /\ scrapy_engine = ScrapyEngine
    /\ frame = <<>>
    /\ gets = <<>>
    /\ returns = <<>>
    /\ web \in Webs

NextCrawl ==
    \/ CallCrawl
    \/ CrawlDepthLink
    \/ CrawlDepthReturn

SpecCrawl ==
    InitCrawl /\ [][NextCrawl]_vars

(***************************************************************************)
(* beautifulsoup_crawler.py: the links of a page.  soup is the sequence of *)
(* href values of the page's <a href> elements, in document order.         *)
(***************************************************************************)
\* Url, character by character
UrlChars ==
    <<"h", "t", "t", "p", ":", "/", "/", "e", "x", "a", "m", "p", "l",
      "e", ".", "c", "o", "m", "/", "l", "o", "g", "i", "n">>

kw_mailto ==
    <<"m", "a", "i", "l", "t", "o", ":">>

kw_javascript ==
    <<"j", "a", "v", "a", "s", "c", "r", "i", "p", "t", ":">>

kw_http ==
    <<"h", "t", "t", "p">>

href_relative ==
    <<"/", "a", "b", "o", "u", "t">>

href_internal ==
    <<"h", "t", "t", "p", ":", "/", "/", "e", "x", "a", "m", "p", "l",
      "e", ".", "c", "o", "m", "/", "a">>

href_external ==
    <<"h", "t", "t", "p", ":", "/", "/", "o", "t", "h", "e", "r", ".",
      "o", "r", "g", "/">>

href_mentions ==
    <<"h", "t", "t", "p", ":", "/", "/", "o", "t", "h", "e", "r", ".",
      "o", "r", "g", "/", "?", "f", "r", "o", "m", "=", "e", "x", "a",
      "m", "p", "l", "e", ".", "c", "o", "m">>

href_netloc ==
    <<"/", "/", "o", "t", "h", "e", "r", ".", "o", "r", "g", "/", "b">>

href_mailto ==
    <<"m", "a", "i", "l", "t", "o", ":", "a", "@", "e", "x", "a", "m",
      "p", "l", "e", ".", "c", "o", "m">>

href_javascript ==
    <<"j", "a", "v", "a", "s", "c", "r", "i", "p", "t", ":", "v", "o",
      "i", "d", "(", "0", ")">>

Hrefs ==
    {href_relative, href_internal, href_external, href_mentions, href_netloc,
     href_mailto, href_javascript}

\* the pages the static engine is served
Pages ==
    SeqsUpTo(Hrefs, MaxHrefs)

\* s.startswith(prefix)
StartsWith(s, prefix) ==
    Take(s, Len(prefix)) = prefix

\* s.find(sub) + 1: where sub first occurs in s, 0 when it does not
Find(s, sub) ==
    LET at == {i \in 1..Len(s) :
                    /\ i + Len(sub) - 1 <= Len(s)
                    /\ SubSeq(s, i, i + Len(sub) - 1) = sub}
    IN  IF at = {} THEN 0 ELSE CHOOSE i \in at : \A j \in at : i <= j

\* urlparse(url).scheme, for a URL that has one
urlparse_scheme(url) ==
    SubSeq(url, 1, Find(url, <<":">>) - 1)

\* does url begin with a scheme: a ":" before any "/"
HasScheme(url) ==
    /\ Find(url, <<":">>) > 1
    /\ Find(url, <<"/">>) \in {0} \cup (Find(url, <<":">>)..Len(url))

\* urlparse(url).netloc: what follows the "//" that begins the URL or
\* follows "scheme:", up to the next "/", "?" or "#"
urlparse_netloc(url) ==
    LET start == IF StartsWith(url, <<"/", "/">>) THEN 3
                 ELSE Find(url, <<":">>) + 3
        ends == {k \in start..Len(url) : url[k] \in {"/", "?", "#"}}
        stop == IF ends = {} THEN Len(url) + 1
                ELSE CHOOSE k \in ends : \A j \in ends : k <= j
    IN  IF StartsWith(url, <<"/", "/">>)
           \/ (HasScheme(url)
               /\ SubSeq(url, Find(url, <<":">>) + 1, Find(url, <<":">>) + 2)
                    = <<"/", "/">>)
        THEN SubSeq(url, start, stop - 1)
        ELSE <<>>

\* urljoin(base, href) for a base with scheme and host, and an href without
\* "." or ".." segments: an href with a scheme is kept, "//host/..." takes
\* the scheme of base, "/path" its scheme and host, anything else replaces
\* what follows the last "/" of base's path
urljoin(base, href) ==
    LET root == urlparse_scheme(base) \o <<":", "/", "/">> \o urlparse_netloc(base)
        path == SubSeq(base, Len(root) + 1, Len(base))
        slashes == {i \in 1..Len(path) : path[i] = "/"}
        last == CHOOSE i \in slashes : \A j \in slashes : i >= j
        dir == IF slashes = {} THEN <<"/">> ELSE SubSeq(path, 1, last)
    IN  CASE href = <<>> -> base
          [] HasScheme(href) -> href
          [] StartsWith(href, <<"/", "/">>) -> urlparse_scheme(base) \o <<":">> \o href
          [] StartsWith(href, <<"/">>) -> root \o href
          [] OTHER -> root \o dir \o href

\* _extract_links(soup, base_url).  list(set(...))[:50] is a list in no
\* particular order and never cut at these sizes: it is kept as the set
extract_links(anchors, base_url) ==
    LET base_domain == urlparse_netloc(base_url)
        absolute(h) == /\ ~StartsWith(h, kw_mailto)
                       /\ ~StartsWith(h, kw_javascript)
                       /\ StartsWith(h, kw_http)
        relative(h) == /\ ~StartsWith(h, kw_mailto)
                       /\ ~StartsWith(h, kw_javascript)
                       /\ ~StartsWith(h, kw_http)
        kept == SelectSeq(anchors, LAMBDA h :
                    relative(h) \/ (absolute(h) /\ Contains(base_domain, h)))
        internal_links == [i \in 1..Len(kept) |->
                            IF relative(kept[i]) THEN urljoin(base_url, kept[i])
                            ELSE kept[i]]
        external_links == SelectSeq(anchors, LAMBDA h :
                            absolute(h) /\ ~Contains(base_domain, h))
        email_links == SelectSeq(anchors, LAMBDA h : StartsWith(h, kw_mailto))
    IN  [total |-> Len(internal_links) + Len(external_links),
         internal |-> Cardinality(Range(internal_links)),
         external |-> Cardinality(Range(external_links)),
         email |-> Len(email_links),
         internal_links |-> Range(internal_links),
         external_links |-> Range(external_links),
         email_links |-> email_links]

(***************************************************************************)
(* The crawl engines as the selector and the endpoints call them.  What    *)
(* the browser or the HTTP session does is the outcome o of the call.      *)
(***************************************************************************)
SeleniumOutcomes ==
    {[kind |-> "driver_failed"], [kind |-> "timeout"], [kind |-> "exception"],
     [kind |-> "ok", forms |-> <<LoginForm>>, inputs |-> <<>>,
      current_url |-> Url],
     [kind |-> "ok", forms |-> <<>>,
      inputs |-> <<[type |-> t_password, name |-> n_username]>>,
      current_url |-> "http://example.com/home"]}

PlaywrightOutcomes ==
    {[kind |-> "exception"],
     [kind |-> "ok", forms |-> <<LoginForm>>, current_url |-> Url]}

BeautifulSoupOutcomes ==
    {[kind |-> "connection"], [kind |-> "timeout"], [kind |-> "http"],
     [kind |-> "exception"],
     [kind |-> "ok", forms |-> <<LoginForm>>,
      inputs |-> <<[type |-> t_text, name |-> n_Password1]>>]}

SeleniumEngine_crawl(o) ==
    CASE o.kind = "driver_failed" ->
            [success |-> FALSE, error |-> "Failed to initialize WebDriver"]
      [] o.kind = "timeout" ->
            [success |-> FALSE, error |-> "Page load timeout"]
      [] o.kind = "exception" ->
            [success |-> FALSE, error |-> "str(e)"]
      [] o.kind = "ok" ->
            [success |-> TRUE,
             data |-> selenium_data(o.forms, o.inputs, o.current_url)]

SeleniumEngine_crawl_with_login(o) ==
    CASE o.kind = "driver_failed" ->
            [success |-> FALSE, error |-> "Failed to initialize WebDriver"]
      [] o.kind \in {"timeout", "exception"} ->
            [success |-> FALSE, error |-> "str(e)"]
      [] o.kind = "ok" ->
            [success |-> TRUE,
             data |-> selenium_login_data(o.forms, o.current_url)]

PlaywrightEngine_crawl(available, o) ==
    IF ~available
    THEN [success |-> FALSE, error |-> "Playwright not installed"]
    ELSE IF o.kind = "ok"
    THEN [success |-> TRUE, data |-> playwright_data(o.forms, o.current_url)]
    ELSE [success |-> FALSE, error |-> "str(e)"]

BeautifulSoupCrawler_crawl(o) ==
    CASE o.kind = "connection" ->
            [success |-> FALSE, error |-> "Connection failed"]
      [] o.kind = "timeout" ->
            [success |-> FALSE, error |-> "Request timeout"]
      [] o.kind = "http" ->
            [success |-> FALSE, error |-> "HTTP 404"]
      [] o.kind = "exception" ->
            [success |-> FALSE, error |-> "str(e)"]
      [] o.kind = "ok" ->
            [success |-> TRUE,
             data |-> [beautifulsoup_data(o.forms, o.inputs) EXCEPT
                            !.links = extract_links(soup, UrlChars)]]

\* an entry of the log of engine and scan calls
Did(call, kind, result) ==
    <<[call |-> call, kind |-> kind, result |-> result]>>

\* CrawlerFactory.crawl: the value returned and the engine call made
CrawlerFactory_crawl(engine, method, s, p) ==
    IF engine = "playwright" /\ PLAYWRIGHT_AVAILABLE
    THEN LET r == PlaywrightEngine_crawl(PLAYWRIGHT_AVAILABLE, p)
         IN  [result |-> r, work |-> Did("PlaywrightEngine.crawl", p.kind, r)]
    ELSE IF method = "login"
    THEN LET r == SeleniumEngine_crawl_with_login(s)
         IN  [result |-> r,
              work |-> Did("SeleniumEngine.crawl_with_login", s.kind, r)]
    ELSE LET r == SeleniumEngine_crawl(s)
         IN  [result |-> r, work |-> Did("SeleniumEngine.crawl", s.kind, r)]

\* scan_target of a URL given as a string: every probe catches what it
\* raises, so the value returned is a scan with its summary
ScanResults ==
    {n \in NetworkData : "summary" \in DOMAIN n}

integrate_network_scan(self, crawl_res, network_result) ==
    process_crawl_data(self, crawl_res, network_result).ret

get_scanner_context(processed_data) ==
    LET ready == Get(processed_data, "vulnerability_scan_ready", <<>>)
        target == Get(ready, "target", <<>>)
        context == Get(ready, "network_context", <<>>)
    IN  [sql_injection_context |->
            [forms |-> Get(target, "forms", <<>>),
             inputs |-> Get(target, "inputs", <<>>),
             network |-> context],
         xss_context |->
            [forms |-> Get(target, "forms", <<>>),
             inputs |-> Get(target, "inputs", <<>>)],
         network_context |->
            [open_ports |-> Get(context, "open_ports", <<>>),
             services |-> Get(context, "services", <<>>),
             ip_addresses |-> Get(context, "ip_addresses", <<>>)]]

(***************************************************************************)
(* The HTTP endpoints (server.py).  A request is its endpoint and its      *)
(* body: no JSON at all ("absent"), the JSON value null, or a JSON object. *)
(***************************************************************************)
EngineTags ==
    {"auto", "selenium", "playwright", "beautifulsoup", "scrapy"}

required ==
    {"url", "username_selector", "password_selector", "submit_selector",
     "username", "password"}

LoginJson ==
    [f \in required |-> IF f = "url" THEN Url ELSE "#" \o f]

JsonObjects(endpoint) ==
    {<<>>, [engine |-> "auto"]} \cup
    CASE endpoint \in {"/api/crawl", "/api/crawl/with-network"} ->
            {[url |-> Url]} \cup {[url |-> Url, engine |-> e] : e \in EngineTags}
      [] endpoint = "/api/crawl/login" ->
            {LoginJson, [url |-> Url],
             [f \in required \ {"password"} |-> LoginJson[f]]}
      [] endpoint = "/api/crawl/scrapy" ->
            {[url |-> Seed], [url |-> Seed, depth |-> 2]}
      [] OTHER ->
            {[url |-> Url]}

Endpoints ==
    {"/api/crawl", "/api/crawl/with-network", "/api/crawl/login",
     "/api/crawl/beautifulsoup", "/api/crawl/scrapy", "/api/scan/network",
     "/api/scan/ping", "/api/scan/dns", "/api/scan/traceroute",
     "/api/extract/forms", "/api/extract/sensitive-fields"}

Requests ==
    {[endpoint |-> ep, body |-> b, json |-> <<>>] :
            ep \in Endpoints, b \in {"absent", "null"}}
        \cup UNION {{[endpoint |-> ep, body |-> "object", json |-> j] :
                            j \in JsonObjects(ep)} : ep \in Endpoints}

\* request.get_json(): the object sent; None for the body null; for a
\* request that carries no JSON, None or an HTTP exception raised,
\* depending on the Flask version and the Content-Type header
get_json(req) ==
    CASE req.body = "object" -> {[kind |-> "json", data |-> req.json]}
      [] req.body = "null" -> {[kind |-> "none", data |-> <<>>]}
      [] req.body = "absent" ->
            {[kind |-> "none", data |-> <<>>],
             [kind |-> "raise", data |-> <<>>]}

\* "except Exception as e" of a handler
handler_except(msg) ==
    [status |-> 500, body |-> [success |-> FALSE, error |-> msg]]

\* "if not data or 'url' not in data: return ..., 400"
url_required(j) ==
    "url" \notin DOMAIN j.data

\* what a handler does with get_json's outcome j before any other call:
\* the response it returns at once, or <<>> when it goes on
rejected(j) ==
    IF j.kind = "raise" THEN handler_except("400 Bad Request")
    ELSE IF url_required(j)
    THEN [status |-> 400, body |-> [error |-> "URL required"]]
    ELSE <<>>

\* crawl_with_login: "if not all(f in data for f in required)"
login_rejected(j) ==
    IF j.kind = "raise" THEN handler_except("400 Bad Request")
    ELSE IF j.kind = "none"
    THEN handler_except("argument of type 'NoneType' is not iterable")
    ELSE IF ~(required \subseteq DOMAIN j.data)
    THEN [status |-> 400, body |-> [error |-> "Required fields"]]
    ELSE <<>>

Serving(endpoint) ==
    /\ request.endpoint = endpoint
    /\ response = <<>>

Answer(resp, w) ==
    /\ response' = resp
    /\ work' = work \o w
    /\ UNCHANGED <<request, soup, PLAYWRIGHT_AVAILABLE, scanVars, procVars>>

crawl_basic ==
    /\ Serving("/api/crawl")
    /\ \E j \in get_json(request), s \in SeleniumOutcomes, p \in PlaywrightOutcomes :
        IF rejected(j) # <<>> THEN Answer(rejected(j), <<>>)
        ELSE LET engine == Get(j.data, "engine", "auto")
                 c == CrawlerFactory_crawl(engine, "basic", s, p)
             IN  Answer([status |-> 200,
                         body |-> [success |-> TRUE, url |-> j.data.url,
                                   engine |-> engine,
                                   raw_data |-> Get(c.result, "data", <<>>),
                                   processed_data |->
                                      process_crawl_data(processor, c.result, <<>>).ret]],
                        c.work)
    /\ UNCHANGED crawlVars

crawl_with_network ==
    /\ Serving("/api/crawl/with-network")
    /\ \E j \in get_json(request), s \in SeleniumOutcomes, p \in PlaywrightOutcomes,
          n1 \in ScanResults, n2 \in ScanResults :
        IF rejected(j) # <<>> THEN Answer(rejected(j), <<>>)
        ELSE LET engine == Get(j.data, "engine", "auto")
                 c == CrawlerFactory_crawl(engine, "basic", s, p)
                 integrated == integrate_network_scan(processor, c.result, n2)
             IN  Answer([status |-> 200,
                         body |-> [success |-> TRUE, url |-> j.data.url,
                                   engine |-> engine,
                                   network_scan |-> n1,
                                   crawl_data |-> Get(c.result, "data", <<>>),
                                   processed_data |-> integrated,
                                   scanner_context |->
                                      get_scanner_context(integrated)]],
                        Did("NetworkScanner.scan_target", "ok", n1)
                            \o c.work
                            \o Did("NetworkScanner.scan_target", "ok", n2))
    /\ UNCHANGED crawlVars

crawl_with_login ==
    /\ Serving("/api/crawl/login")
    /\ \E j \in get_json(request), s \in SeleniumOutcomes, p \in PlaywrightOutcomes :
        IF login_rejected(j) # <<>> THEN Answer(login_rejected(j), <<>>)
        ELSE LET c == CrawlerFactory_crawl("selenium", "login", s, p)
             IN  Answer([status |-> 200,
                         body |-> [success |-> Get(c.result, "success", FALSE),
                                   url |-> j.data.url,
                                   authenticated |-> TRUE,
                                   raw_data |-> Get(c.result, "data", <<>>),
                                   processed_data |->
                                      process_crawl_data(processor, c.result, <<>>).ret]],
                        c.work)
    /\ UNCHANGED crawlVars

crawl_beautifulsoup ==
    /\ Serving("/api/crawl/beautifulsoup")
    /\ \E j \in get_json(request), o \in BeautifulSoupOutcomes :
        IF rejected(j) # <<>> THEN Answer(rejected(j), <<>>)
        ELSE LET result == BeautifulSoupCrawler_crawl(o)
                 w == Did("BeautifulSoupCrawler.crawl", o.kind, result)
             IN  IF Get(result, "success", FALSE)
                 THEN Answer([status |-> 200,
                              body |-> [success |-> TRUE,
                                        engine |-> "beautifulsoup",
                                        url |-> j.data.url,
                                        raw_data |-> Get(result, "data", <<>>),
                                        processed_data |->
                                           process_crawl_data(processor, result, <<>>).ret]],
                             w)
                 ELSE Answer([status |-> 400, body |-> result], w)
    /\ UNCHANGED crawlVars

\* crawl_scrapy up to the point where scrapy_engine.crawl is running
crawl_scrapy ==
    /\ Serving("/api/crawl/scrapy")
    /\ frame = <<>>
    /\ returns = <<>>
    /\ \E j \in get_json(request) :
        IF rejected(j) # <<>>
        THEN Answer(rejected(j), <<>>) /\ UNCHANGED crawlVars
        ELSE /\ crawl(j.data.url, Get(j.data, "depth", 1))
             /\ work' = work \o Did("ScrapyEngine.crawl", "called", <<>>)
             /\ UNCHANGED <<request, response, soup, PLAYWRIGHT_AVAILABLE,
                            scanVars, procVars>>

\* crawl_scrapy from the return of scrapy_engine.crawl
crawl_scrapy_respond ==
    /\ Serving("/api/crawl/scrapy")
    /\ frame = <<>>
    /\ returns # <<>>
    /\ LET result == returns[1]
           w == Did("ScrapyEngine.crawl", "returned", result)
       IN  IF Get(result, "success", FALSE)
           THEN Answer([status |-> 200,
                        body |-> [success |-> TRUE, engine |-> "scrapy",
                                  url |-> request.json.url,
                                  depth |-> Get(request.json, "depth", 1),
                                  raw_data |-> Get(result, "data", <<>>),
                                  processed_data |->
                                     process_crawl_data(processor, result, <<>>).ret]],
                       w)
           ELSE Answer([status |-> 400, body |-> result], w)
    /\ UNCHANGED crawlVars

network_scan ==
    /\ Serving("/api/scan/network")
    /\ \E j \in get_json(request), result \in ScanResults :
        IF rejected(j) # <<>> THEN Answer(rejected(j), <<>>)
        ELSE LET w == Did("NetworkScanner.scan_target", "ok", result)
             IN  IF "error" \notin DOMAIN result
                 THEN Answer([status |-> 200,
                              body |-> [success |-> TRUE, url |-> j.data.url,
                                        network_data |-> result,
                                        summary |-> Get(result, "summary", <<>>)]],
                             w)
                 ELSE Answer([status |-> 400, body |-> result], w)
    /\ UNCHANGED crawlVars

\* the three endpoints that run one probe and wrap what it returns
probe_answer(j, call, key, result) ==
    Answer([status |-> 200,
            body |-> (key :> result) @@
                     [success |-> Get(result, "success", FALSE),
                      url |-> j.data.url]],
           Did(call, "ok", result))

ping_scan ==
    /\ Serving("/api/scan/ping")
    /\ \E j \in get_json(request), o \in PingOutcomes :
        IF rejected(j) # <<>> THEN Answer(rejected(j), <<>>)
        ELSE probe_answer(j, "NetworkScanner._ping_host", "ping_result",
                          ping_host(o))
    /\ UNCHANGED crawlVars

dns_scan ==
    /\ Serving("/api/scan/dns")
    /\ \E j \in get_json(request), g \in GethostbynameOutcomes,
          a \in GetaddrinfoOutcomes, d \in DigOutcomes :
        IF rejected(j) # <<>> THEN Answer(rejected(j), <<>>)
        ELSE probe_answer(j, "NetworkScanner._nslookup", "dns_result",
                          nslookup(Hostname, g, a, d))
    /\ UNCHANGED crawlVars

traceroute_scan ==
    /\ Serving("/api/scan/traceroute")
    /\ \E j \in get_json(request), o \in TracerouteOutcomes :
        IF rejected(j) # <<>> THEN Answer(rejected(j), <<>>)
        ELSE probe_answer(j, "NetworkScanner._traceroute", "traceroute_result",
                          traceroute(o))
    /\ UNCHANGED crawlVars

extract_forms ==
    /\ Serving("/api/extract/forms")
    /\ \E j \in get_json(request), o \in BeautifulSoupOutcomes :
        IF rejected(j) # <<>> THEN Answer(rejected(j), <<>>)
        ELSE LET result == BeautifulSoupCrawler_crawl(o)
                 forms == IF Get(result, "success", FALSE)
                          THEN Get(Get(result, "data", <<>>), "forms", <<>>)
                          ELSE <<>>
             IN  Answer([status |-> 200,
                         body |-> [success |-> Get(result, "success", FALSE),
                                   url |-> j.data.url,
                                   form_count |-> Len(forms),
                                   forms |-> forms]],
                        Did("BeautifulSoupCrawler.crawl", o.kind, result))
    /\ UNCHANGED crawlVars

\* bs_crawler.extract_sensitive_fields returns a list, [] when it fails
extract_sensitive ==
    /\ Serving("/api/extract/sensitive-fields")
    /\ \E j \in get_json(request),
          sensitive \in {<<>>, <<[type |-> t_password, name |-> n_user_password,
                                  id |-> ""]>>} :
        IF rejected(j) # <<>> THEN Answer(rejected(j), <<>>)
        ELSE Answer([status |-> 200,
                     body |-> [success |-> TRUE, url |-> j.data.url,
                               sensitive_count |-> Len(sensitive),
                               sensitive_fields |-> sensitive]],
                    Did("BeautifulSoupCrawler.extract_sensitive_fields", "ok",
                        sensitive))
    /\ UNCHANGED crawlVars

\* the module-level objects of server.py and one request to serve
InitServer ==
    /\ pc = "idle"
    /\ scan_results = <<>>
    /\ ret = <<>>
    /\ invoked = <<>>
    /\ commands = <<>>
    /\ crawl_result = <<>>
    /\ network_data = <<>>
    /\ processor = DataProcessor
    /\ processed = <<>>
    /\ calls = <<>>
    /\ ncalls = 0
    /\ scrapy_engine = ScrapyEngine
    /\ frame = <<>>
    /\ gets = <<>>
    /\ returns = <<>>
    /\ request \in Requests
    /\ web \in IF request.endpoint = "/api/crawl/scrapy"
               THEN Webs
               ELSE {[seed_hrefs |-> <<>>, not_found |-> {}, down |-> {}]}
    /\ response = <<>>
    /\ work = <<>>
    /\ soup \in IF request.endpoint = "/api/crawl/beautifulsoup"
                THEN Pages
                ELSE {<<>>}
    /\ PLAYWRIGHT_AVAILABLE \in BOOLEAN

NextServer ==
    \/ crawl_basic
    \/ crawl_with_network
    \/ crawl_with_login
    \/ crawl_beautifulsoup
    \/ crawl_scrapy
    \/ CrawlDepthLink
    \/ CrawlDepthReturn
    \/ crawl_scrapy_respond
    \/ network_scan
    \/ ping_scan
    \/ dns_scan
    \/ traceroute_scan
    \/ extract_forms
    \/ extract_sensitive

SpecServer ==
    InitServer /\ [][NextServer]_vars

(***************************************************************************)
(* Properties of the network scan aggregator, checked under SpecScan.      *)
(***************************************************************************)
Returned ==
    pc = "done"

HasSummary ==
    Returned /\ "summary" \in DOMAIN ret

Ran(cmd, kind) ==
    \E i \in 1..Len(commands) : commands[i] = [cmd |-> cmd, kind |-> kind]

NoDuplicates(s) ==
    \A i, j \in 1..Len(s) : s[i] = s[j] => i = j

\* C1: in every Network Summary, network_accessible is true exactly when
\* target_info.reachable is true and target_info.ip_addresses is non-empty.
C1_AccessibleIffReachableAndResolved ==
    HasSummary =>
        (ret.summary.network_accessible
            <=> (/\ ret.summary.target_info.reachable
                 /\ ret.summary.target_info.ip_addresses # <<>>))

\* C2: whatever way each probe ends, scan_target has called all of the
\* probes by the time it returns, and what it returns carries a summary.
C2_AllProbesRunAndSummaryReturned ==
    Returned =>
        /\ {"_ping_host", "_nslookup", "_traceroute", "_nmap_scan"}
                \subseteq Range(invoked)
        /\ "summary" \in DOMAIN ret
        /\ DOMAIN ret.summary =
                {"target_info", "open_ports", "services", "hop_count",
                 "network_accessible"}

\* C2 witness: a scan has returned in which every probe failed, each in a
\* different way (timeout, unexpected exception, missing tool, exit status).
C2_Witness ==
    /\ Returned
    /\ Ran("ping", "timeout")
    /\ "error" \in DOMAIN scan_results.dns_results
    /\ Ran("traceroute", "notfound")
    /\ Ran("nmap -V", "ok")
    /\ Ran("nmap -p", "exception")
    /\ ~scan_results.socket_info.success

\* C3: when the port-scan tool is not installed, the port-scan result is a
\* failure saying so, and the scan still returns a summary whose open_ports
\* and services are empty.
C3_AbsentNmapGivesEmptyPorts ==
    (Returned /\ Ran("nmap -V", "notfound")) =>
        /\ ~scan_results.nmap_results.success
        /\ scan_results.nmap_results.error = "nmap not installed"
        /\ "summary" \in DOMAIN ret
        /\ ret.summary.open_ports = <<>>
        /\ ret.summary.services = <<>>

\* C3 witness: a scan has returned in which nmap was not found.
C3_Witness ==
    Returned /\ Ran("nmap -V", "notfound")

\* C4: the summary's ip_addresses holds, exactly once each, every address
\* found by _nslookup and every address found by _get_socket_info.
C4_IpAddressesAreUnionOfBothStrategies ==
    HasSummary =>
        LET dns == scan_results.dns_results
            sock == scan_results.socket_info
        IN  /\ NoDuplicates(ret.summary.target_info.ip_addresses)
            /\ Range(ret.summary.target_info.ip_addresses) =
                    Range(Get(dns, "ipv4_addresses", <<>>))
                        \cup Range(Get(dns, "ipv6_addresses", <<>>))
                        \cup Range(Get(sock, "all_addresses", <<>>))

\* the probe behind each command, and the key scan_target files its result under
ProbeOf ==
    [ping |-> "ping_results", dig |-> "dns_results",
     traceroute |-> "traceroute_results"]

\* C21: no probe raises to scan_target, and a probe whose tool is missing
\* or whose command timed out returns success false with an error; the
\* error for the missing tool differs from the error for the timeout.
C21_MissingToolAndTimeoutFailDistinctly ==
    Returned =>
        /\ "summary" \in DOMAIN ret
        /\ \A cmd \in DOMAIN ProbeOf, kind \in {"notfound", "timeout"} :
              Ran(cmd, kind) =>
                 /\ ~scan_results[ProbeOf[cmd]].success
                 /\ "error" \in DOMAIN scan_results[ProbeOf[cmd]]
        /\ \A cmd \in {"nmap -V", "nmap -p"}, kind \in {"notfound", "timeout"} :
              Ran(cmd, kind) =>
                 /\ ~scan_results.nmap_results.success
                 /\ "error" \in DOMAIN scan_results.nmap_results
        /\ ping_host([kind |-> "notfound", times |-> <<>>]).error
                # ping_host([kind |-> "timeout", times |-> <<>>]).error
        /\ traceroute([kind |-> "notfound", stdout |-> <<>>]).error
                # traceroute([kind |-> "timeout", stdout |-> <<>>]).error
        /\ nmap_except("notfound").error # nmap_except("timeout").error

\* C22: the probes of one scan run concurrently, so a probe that blocks
\* until its timeout delays no other probe: whenever a command has timed
\* out, each of the four probes has been started.
C22_TimeoutDelaysNoOtherProbe ==
    (\E i \in 1..Len(commands) : commands[i].kind = "timeout") =>
        {"_ping_host", "_nslookup", "_traceroute", "_nmap_scan"}
            \subseteq Range(invoked)

\* C23: the real port scan is run only after the version check has ended
\* with exit status 0; when the check ended any other way, the real scan
\* is never started and the probe's result is a failure.
C23_ScanOnlyAfterSuccessfulCheck ==
    /\ \A i \in 1..Len(commands) :
            commands[i].cmd = "nmap -p" =>
                \E j \in 1..(i - 1) :
                    commands[j] = [cmd |-> "nmap -V", kind |-> "ok"]
    /\ (\E k \in RunKinds \ {"ok"} : Ran("nmap -V", k)) =>
            /\ \A i \in 1..Len(commands) : commands[i].cmd # "nmap -p"
            /\ "nmap_results" \in DOMAIN scan_results
            /\ ~scan_results.nmap_results.success

\* C23 witness: the version check timed out and the probe has returned.
C23_Witness ==
    /\ Ran("nmap -V", "timeout")
    /\ "nmap_results" \in DOMAIN scan_results
    /\ "_nmap_scan" \in Range(invoked)
(***************************************************************************)
(* Properties of the fusion/enrichment processor, checked under SpecProc.  *)
(***************************************************************************)
\* process_crawl_data has returned, for the arguments now in place
Called ==
    processed # <<>>

\* ... and what it returned is an Enriched Record
Enriched ==
    Called /\ "vulnerability_scan_ready" \in DOMAIN processed

CrawlSucceeded ==
    Get(crawl_result, "success", FALSE)

BareInputs ==
    Get(Get(crawl_result, "data", <<>>), "inputs", <<>>)

SensitiveFields ==
    processed.enriched_data.sensitive_fields

InjectableParameters ==
    processed.vulnerability_scan_ready.injectable_parameters

NormalizedFields ==
    {"status_code", "total_links", "internal_links", "external_links",
     "forms_count", "inputs_count", "page_size_kb", "javascript_enabled",
     "authenticated", "redirected"}

\* C5: the normalized crawl projection of every successful crawl result,
\* whichever engine produced it, has each field of the fixed field set.
C5_NormalizedFieldSetForEveryEngine ==
    Enriched => NormalizedFields \subseteq DOMAIN processed.crawl_data

\* C6, as claimed: an input named Password1 or typed password is always in
\* sensitive_fields, and an input named username never is.
C6_UsernameNeverSensitive ==
    Enriched =>
        \A i \in 1..Len(BareInputs) :
            LET inp == BareInputs[i]
            IN  /\ (\/ Get(inp, "name", <<>>) = n_Password1
                    \/ Get(inp, "type", <<>>) = t_password)
                        => inp \in Range(SensitiveFields)
                /\ Get(inp, "name", <<>>) = n_username
                        => inp \notin Range(SensitiveFields)

\* C6, amended: an input named Password1 or typed password is always in
\* sensitive_fields, and an input named username is in it exactly when its
\* type contains a sensitive keyword.
C6_UsernameSensitiveOnlyByType ==
    Enriched =>
        \A i \in 1..Len(BareInputs) :
            LET inp == BareInputs[i]
            IN  /\ (\/ Get(inp, "name", <<>>) = n_Password1
                    \/ Get(inp, "type", <<>>) = t_password)
                        => inp \in Range(SensitiveFields)
                /\ Get(inp, "name", <<>>) = n_username
                        => (inp \in Range(SensitiveFields)
                                <=> \E kw \in sensitive_keywords :
                                        Contains(kw, Lower(Get(inp, "type", <<>>))))

\* C6 witness: an Enriched Record for the inputs Password1 (a text input)
\* and username (an email input), of which only the first is sensitive.
C6_Witness ==
    /\ Enriched
    /\ BareInputs = <<[type |-> t_text, name |-> n_Password1],
                      [type |-> t_email, name |-> n_username]>>
    /\ SensitiveFields = <<[type |-> t_text, name |-> n_Password1]>>

\* C7: for a crawl result whose one form has the fields user_password
\* (type password) and q (type text), sensitive_fields contains the
\* user_password field and injectable_parameters contains q.
C7_FormFieldsAreScanned ==
    (Enriched /\ Get(Get(crawl_result, "data", <<>>), "forms", <<>>) = <<LoginForm>>) =>
        /\ \E i \in 1..Len(SensitiveFields) :
                Get(SensitiveFields[i], "name", <<>>) = n_user_password
        /\ n_q \in Range(InjectableParameters)

\* C8: injectable_parameters is the list of the names of the inputs whose
\* type is text, email, number, search or url, in the order of the inputs;
\* no input of another type (checkbox, hidden, submit) contributes a name.
C8_InjectableAreTextLikeInOrder ==
    Enriched =>
        LET textLike == SelectSeq(BareInputs,
                            LAMBDA inp : Get(inp, "type", None) \in
                                {<<"t", "e", "x", "t">>,
                                 <<"e", "m", "a", "i", "l">>,
                                 <<"n", "u", "m", "b", "e", "r">>,
                                 <<"s", "e", "a", "r", "c", "h">>,
                                 <<"u", "r", "l">>})
        IN  InjectableParameters =
                [i \in 1..Len(textLike) |-> Get(textLike[i], "name", <<>>)]

\* C8 witness: an Enriched Record for a hidden input followed by an email
\* input, of which only the second gave its name.
C8_Witness ==
    /\ Enriched
    /\ BareInputs = <<[type |-> t_hidden, name |-> n_csrf_token],
                      [type |-> t_email, name |-> n_username]>>
    /\ InjectableParameters = <<n_username>>

C10_FailurePropagatedUnprocessed ==
    (Called /\ ~CrawlSucceeded) =>
        /\ processed = [success |-> FALSE,
                        error |-> IF "error" \in DOMAIN crawl_result
                                  THEN crawl_result.error ELSE NoneText]
        /\ calls = <<>>

\* C10 witness: the call has returned for a failed crawl result that
\* nevertheless carries page data.
C10_Witness ==
    /\ Called
    /\ ~CrawlSucceeded
    /\ "data" \in DOMAIN crawl_result
    /\ processed.error = "HTTP 500"


\* C11: in every Enriched Record network_context is present; when a network
\* scan with a summary was supplied it holds the summary's ip_addresses,
\* reachable, open_ports and services unchanged, and when none was supplied
\* it is the empty object.
C11_NetworkContextCopiesSummary ==
    Enriched =>
        /\ "network_context" \in DOMAIN processed.vulnerability_scan_ready
        /\ LET ctx == processed.vulnerability_scan_ready.network_context
           IN  IF "summary" \in DOMAIN network_data
               THEN LET summary == network_data.summary
                    IN  /\ {"ip_addresses", "reachable", "open_ports", "services"}
                                \subseteq DOMAIN ctx
                        /\ ctx.ip_addresses = summary.target_info.ip_addresses
                        /\ ctx.reachable = summary.target_info.reachable
                        /\ ctx.open_ports = summary.open_ports
                        /\ ctx.services = summary.services
               ELSE network_data = <<>> => ctx = <<>>


(***************************************************************************)
(* Properties of the depth-limited crawl engine, checked under SpecCrawl.  *)
(***************************************************************************)
\* the k-th crawl call has returned a successful result
CrawlSucceededAt(k) ==
    k <= Len(returns) /\ returns[k].success

\* C12: two crawl calls on one engine that were given the same seed and the
\* same max_depth, and both succeeded, fetched the same set of pages.
C12_FetchedPagesIndependentOfEarlierCrawls ==
    \A i, j \in 1..Len(returns) :
        (/\ i < j
         /\ CrawlSucceededAt(i)
         /\ CrawlSucceededAt(j)
         /\ returns[i].data.url = returns[j].data.url
         /\ returns[i].data.depth = returns[j].data.depth)
            => Range(gets[i]) = Range(gets[j])

\* C13: the first crawl of an engine, with max_depth 2, of a seed page
\* that links to 8 different pages of its own host, all of which answer
\* 200, fetches the seed and 5 more pages, and pages_crawled has 6 entries.
C13_FiveOfEightPagesFollowed ==
    (/\ CrawlSucceededAt(1)
     /\ returns[1].data.depth = 2
     /\ LET url == returns[1].data.url
            sameHost == {l \in Range(extract_crawlable_links(page_hrefs(web, url))) :
                            l.netloc = url.netloc /\ l # url}
        IN  /\ Cardinality(sameHost) = 8
            /\ \A l \in sameHost : session_get(web, l).status_code = 200)
        => /\ Len(gets[1]) = 6
           /\ Len(returns[1].data.pages_crawled) = 6

\* C14: no crawl call requests a URL twice; in particular the seed URL is
\* requested once however the pages link back to it.
C14_NoUrlFetchedTwice ==
    \A k \in 1..Len(gets) : NoDuplicates(gets[k])


(***************************************************************************)
(* Properties of the engine selector and the endpoints, checked under      *)
(* SpecServer.                                                             *)
(***************************************************************************)
Responded ==
    response # <<>>

\* the request carries a JSON object with every field its endpoint requires
WellFormed ==
    /\ request.body = "object"
    /\ IF request.endpoint = "/api/crawl/login"
       THEN required \subseteq DOMAIN request.json
       ELSE "url" \in DOMAIN request.json

SelectorEndpoints ==
    {"/api/crawl", "/api/crawl/with-network"}

CrawlCalls ==
    {"SeleniumEngine.crawl", "SeleniumEngine.crawl_with_login",
     "PlaywrightEngine.crawl", "BeautifulSoupCrawler.crawl",
     "ScrapyEngine.crawl"}

\* the crawl engine calls that have returned, with what they returned
CrawlsDone ==
    {i \in 1..Len(work) : work[i].call \in CrawlCalls /\ work[i].kind # "called"}

\* the crawl data the response carries
RawData ==
    IF "raw_data" \in DOMAIN response.body
    THEN response.body.raw_data
    ELSE Get(response.body, "crawl_data", <<>>)

\* C15: a request in mode auto, served while the Selenium WebDriver cannot
\* be initialized and Playwright is installed, is answered with the result
\* of another engine and not with a failure.
C15_AutoFallsBackToAvailableEngine ==
    (/\ Responded
     /\ WellFormed
     /\ request.endpoint \in SelectorEndpoints
     /\ Get(request.json, "engine", "auto") = "auto"
     /\ PLAYWRIGHT_AVAILABLE
     /\ \E i \in CrawlsDone : work[i].kind = "driver_failed")
        => /\ \E i \in CrawlsDone : work[i].call # "SeleniumEngine.crawl"
           /\ Get(response.body.processed_data, "success", TRUE)

\* C16: a request that names an engine is answered with crawl data tagged
\* with that engine or with none; when it names playwright and Playwright
\* is not installed, it is answered with a failure and no crawl data.
C16_ExplicitEngineIsTheOneRun ==
    (/\ Responded
     /\ WellFormed
     /\ request.endpoint \in SelectorEndpoints
     /\ Get(request.json, "engine", "auto") # "auto")
        => /\ RawData # <<>> => RawData.engine = request.json.engine
           /\ (request.json.engine = "playwright" /\ ~PLAYWRIGHT_AVAILABLE)
                => /\ RawData = <<>>
                   /\ ~Get(response.body.processed_data, "success", TRUE)

\* C17: a well-formed request whose crawl or scan was attempted and
\* reported a failure is answered with status 200.
C17_LogicalFailureAnswered200 ==
    (/\ Responded
     /\ WellFormed
     /\ \E i \in 1..Len(work) :
            /\ work[i].call # "BeautifulSoupCrawler.extract_sensitive_fields"
            /\ work[i].kind # "called"
            /\ ~Get(work[i].result, "success", TRUE))
        => response.status = 200

\* C18: a request without a JSON object, or whose object lacks a required
\* field, is answered with status 400 and no engine or probe is called.
C18_MalformedRejectedBeforeWork ==
    (Responded /\ ~WellFormed) =>
        /\ response.status = 400
        /\ work = <<>>

\* C19: the answer to a well-formed crawl request has success true, with
\* raw_data and processed_data, when the engine reported success, and is
\* {success: false, error} with the engine's error when it reported failure.
C19_SuccessOnlyWhenEngineSucceeded ==
    (/\ Responded
     /\ WellFormed
     /\ request.endpoint \in {"/api/crawl", "/api/crawl/with-network",
                              "/api/crawl/login", "/api/crawl/beautifulsoup",
                              "/api/crawl/scrapy"})
        => \A i \in CrawlsDone :
              IF work[i].result.success
              THEN /\ response.body.success
                   /\ RawData = work[i].result.data
                   /\ "processed_data" \in DOMAIN response.body
              ELSE response.body =
                        [success |-> FALSE, error |-> work[i].result.error]

\* C20: the data of every successful result of every engine and flavor of
\* crawl has the engine tag, the url and the javascript flag.
C20_EngineUrlAndJavascriptFlagPopulated ==
    \A i \in CrawlsDone :
        work[i].result.success =>
            /\ {"engine", "url"} \subseteq DOMAIN work[i].result.data
            /\ \/ "javascript_rendered" \in DOMAIN work[i].result.data
               \/ "javascript_enabled" \in DOMAIN work[i].result.data


\* C24: in the first crawl of an engine, with max_depth d: with d = 1 only
\* the seed is requested; with d = 2 nothing but the seed and pages the
\* seed links to; with d >= 3 a same-host page linked from a page crawled
\* at level 2 is left unrequested only if 5 pages were requested at level 3.
C24_BreadthFirstLevelByLevel ==
    CrawlSucceededAt(1) =>
        LET url == returns[1].data.url
            d == returns[1].data.depth
            pages == returns[1].data.pages_crawled
            seedLinks == extract_crawlable_links(page_hrefs(web, url))
            fetched == Range(gets[1])
            found == {l \in UNION {Range(pages[i].links) : i \in 2..Len(pages)} :
                        l.netloc = url.netloc}
        IN  /\ d = 1 => gets[1] = <<url>>
            /\ d = 2 => fetched \subseteq {url} \cup Range(seedLinks)
            /\ (d >= 3 /\ found \ fetched # {}) =>
                    Cardinality(fetched \ ({url} \cup Range(Take(seedLinks, 5)))) >= 5


\* a line of nmap's port table that reports port p open: it begins with
\* the digits of p and a "/", and its second column is the state "open"
ReportsOpen(line, p) ==
    LET s == Strip(line)
        spaces == {i \in 1..Len(s) : s[i] = " "}
        sp == CHOOSE i \in spaces : \A j \in spaces : i <= j
        state == Strip(SubSeq(s, sp, Len(s)))
    IN  /\ spaces # {}
        /\ \E n \in 1..(sp - 2) :
                /\ \A k \in 1..n : IsDigit(s[k])
                /\ s[n + 1] = "/"
                /\ ToInt(Take(s, n)) = p
        /\ Lower(Take(state, 4)) = w_open

\* C25: in every Network Summary, each member of open_ports is the leading
\* port number of a line of the port scan's output that reports the port
\* open; open_ports is strictly ascending; services has exactly the open
\* ports as keys, each with its name in the well-known table or "Unknown".
C25_OpenPortsAreReportedOpen ==
    HasSummary =>
        LET open_ports == ret.summary.open_ports
            services == ret.summary.services
            stdout == Get(Get(ret, "nmap_results", <<>>), "scan_data", <<>>)
        IN  /\ \A i \in 1..Len(open_ports) :
                    \E l \in 1..Len(stdout) : ReportsOpen(stdout[l], open_ports[i])
            /\ \A i, j \in 1..Len(open_ports) :
                    i < j => open_ports[i] < open_ports[j]
            /\ DOMAIN services = Range(open_ports)
            /\ \A p \in DOMAIN services :
                    services[p] = IF p \in DOMAIN port_services
                                  THEN port_services[p]
                                  ELSE "Unknown"

\* a summary made from output with a line that has "open" in it without
\* being a port line, and a line for an open port outside the table
C25_Witness ==
    /\ HasSummary
    /\ Get(Get(ret, "nmap_results", <<>>), "scan_data", <<>>)
            = <<line_rdns, line_8080>>
    /\ ret.summary.open_ports = <<8080>>
    /\ ret.summary.services[8080] = "Unknown"


\* the URL the browser was at when the engine read the page
FinalUrl(data) ==
    IF "current_url" \in DOMAIN data THEN data.current_url
    ELSE data.redirected_url

\* C27: in the Enriched Record of a crawl result of a browser engine, login
\* crawls included, redirected is true exactly when the URL the browser
\* ended at is not the URL that was requested.
C27_RedirectedIffFinalUrlDiffers ==
    (/\ Enriched
     /\ CrawlSucceeded
     /\ Get(Get(crawl_result, "data", <<>>), "engine", "")
            \in {"selenium", "playwright"})
        => (processed.crawl_data.redirected
                <=> FinalUrl(crawl_result.data) # Url)

\* C28: process_crawl_data called with a successful crawl result that has an
\* input descriptor whose name or type is missing or null returns an
\* Enriched Record, not a failure.
C28_NullNameOrTypeStillEnriched ==
    (/\ Called
     /\ CrawlSucceeded
     /\ \E i \in 1..Len(BareInputs) :
            \/ Get(BareInputs[i], "name", None) = None
            \/ Get(BareInputs[i], "type", None) = None)
        => Enriched

\* C29: serving one well-formed /api/crawl/with-network request calls
\* scan_target exactly once, and the network data fused into processed_data
\* is the scan returned as network_scan.
C29_OneScanServesResponseAndFusion ==
    (/\ Responded
     /\ request.endpoint = "/api/crawl/with-network"
     /\ response.status = 200)
        => /\ Cardinality({i \in 1..Len(work) :
                            work[i].call = "NetworkScanner.scan_target"}) = 1
           /\ "network_data" \in DOMAIN response.body.processed_data
                => response.body.processed_data.network_data
                        = response.body.network_scan

(***************************************************************************)
(* Properties of the static engine's link summary.                         *)
(***************************************************************************)
\* the links entry of the data BeautifulSoupCrawler.crawl returned
StaticCrawlDone ==
    /\ request # <<>>
    /\ request.endpoint = "/api/crawl/beautifulsoup"
    /\ Len(work) = 1
    /\ work[1].kind = "ok"

StaticLinks ==
    work[1].result.data.links

\* C26: after a crawl by the static engine, for every href of the page: a
\* mailto: href is in the email list and in no other; a javascript: href is
\* in no list; any other href, resolved against the request URL, is in the
\* internal list exactly when its host is the host of the request URL, and
\* in the external list exactly when it is not.
C26_InternalIffSameHost ==
    StaticCrawlDone =>
        \A i \in 1..Len(soup) :
            LET href == soup[i]
                resolved == urljoin(UrlChars, href)
                same == urlparse_netloc(resolved) = urlparse_netloc(UrlChars)
            IN  CASE StartsWith(href, kw_mailto) ->
                        /\ href \in Range(StaticLinks.email_links)
                        /\ href \notin StaticLinks.internal_links
                        /\ href \notin StaticLinks.external_links
                  [] StartsWith(href, kw_javascript) ->
                        /\ href \notin Range(StaticLinks.email_links)
                        /\ href \notin StaticLinks.internal_links
                        /\ href \notin StaticLinks.external_links
                  [] OTHER ->
                        /\ resolved \in StaticLinks.internal_links <=> same
                        /\ resolved \in StaticLinks.external_links <=> ~same

\* C30: after a crawl by the static engine, total is internal plus external
\* in the links of the raw data and in the content analysis made of them.
C30_TotalIsInternalPlusExternal ==
    StaticCrawlDone =>
        LET analysis == process_beautifulsoup_data(work[1].result.data)
        IN  /\ StaticLinks.total = StaticLinks.internal + StaticLinks.external
            /\ analysis.total_links
                    = analysis.internal_links + analysis.external_links

====
